---------------------------- MODULE Spec2Model ----------------------------
(***************************************************************************)
(* A model of flask_api_ultra_robust.py: the POST /query handler           *)
(* (query_sql), the five-strategy request decoder (fix_json_format) and    *)
(* the query executor / result normaliser (execute_sql_query).             *)
(*                                                                         *)
(* Text is a sequence of one-character strings.  A decoded Python value is *)
(* a record tagged by its type (PyStr, PyNum, PyList, PyDict, ...).        *)
(***************************************************************************)
EXTENDS Naturals, Sequences, FiniteSets

(***************************************************************************)
(* Characters                                                              *)
(***************************************************************************)
LF == "\n"
CR == "\r"
TAB == "\t"
BS == "\\"
DQ == "\""
SQ == "'"
EOF == ""

Digits == <<"0", "1", "2", "3", "4", "5", "6", "7", "8", "9">>

IsDigit(c) == \E k \in 1..Len(Digits) : Digits[k] = c

DigitVal(c) == (CHOOSE k \in 1..Len(Digits) : Digits[k] = c) - 1

\* The characters below 0x20 that occur in the modelled texts.
IsControl(c) == c \in {LF, CR, TAB}

\* The character at position i of s, EOF past the end.
At(s, i) == IF i >= 1 /\ i <= Len(s) THEN s[i] ELSE EOF

\* s[i..j], empty when j < i.
Slice(s, i, j) == IF j < i THEN <<>> ELSE SubSeq(s, i, j)

\* Does pat occur in s at position i?
StartsAt(s, i, pat) ==
    /\ i >= 1
    /\ i + Len(pat) - 1 <= Len(s)
    /\ \A k \in 1..Len(pat) : s[i + k - 1] = pat[k]

(***************************************************************************)
(* Python values                                                           *)
(***************************************************************************)
PyNone == [t |-> "None"]
PyBool(b) == [t |-> "bool", b |-> b]
PyNum(n) == [t |-> "num", n |-> n]
PyStr(s) == [t |-> "str", s |-> s]
PyList(items) == [t |-> "list", items |-> items]
\* kv: the key/value pairs in source order; a later pair with the same key
\* overwrites an earlier one (DictGet takes the last).
PyDict(kv) == [t |-> "dict", kv |-> kv]

\* Python truthiness: the operand of `not`.
Truthy(v) ==
    CASE v.t = "None" -> FALSE
      [] v.t = "bool" -> v.b
      [] v.t = "num" -> v.n # 0
      [] v.t = "str" -> Len(v.s) > 0
      [] v.t = "list" -> Len(v.items) > 0
      [] v.t = "dict" -> Len(v.kv) > 0
      [] OTHER -> TRUE

\* Can v be a dict key?
Hashable(v) == v.t \notin {"list", "dict"}

\* dict.get(key) of a PyDict: the value of the last pair with that key, None
\* when there is none.
DictGet(d, key) ==
    LET hits == {k \in 1..Len(d.kv) : d.kv[k].k = key}
    IN  IF hits = {} THEN PyNone
        ELSE d.kv[CHOOSE k \in hits : \A m \in hits : m <= k].v

(***************************************************************************)
(* json.loads and ast.literal_eval                                         *)
(*                                                                         *)
(* One recursive-descent parser with a mode flag: py = FALSE is            *)
(* json.loads (strict), py = TRUE is ast.literal_eval.  A parse result is  *)
(* [ok, v, i]: success, the value, and the position after it.  The Python  *)
(* mode covers dict, list, single-line str in either quote, int, None,     *)
(* True, False; the remaining literal forms (tuple, set, bytes, adjacent   *)
(* string concatenation, triple quotes, floats, signs) are rejected and do *)
(* not occur in the modelled request bodies.                               *)
(***************************************************************************)
Fail == [ok |-> FALSE, v |-> PyNone, i |-> 0]
Done(v, i) == [ok |-> TRUE, v |-> v, i |-> i]

\* json: whitespace is " \t\n\r".  Python, inside brackets: the same.
IsWs(c) == c \in {" ", TAB, LF, CR}

RECURSIVE SkipWs(_, _)
SkipWs(s, i) == IF IsWs(At(s, i)) THEN SkipWs(s, i + 1) ELSE i

\* What a backslash followed by e stands for, as a sequence of characters;
\* <<"?">> marks an escape the mode rejects.
Unescape(e, py) ==
    CASE e = "n" -> <<LF>>
      [] e = "r" -> <<CR>>
      [] e = "t" -> <<TAB>>
      [] e = BS -> <<BS>>
      [] e = DQ -> <<DQ>>
      [] e = "/" /\ ~py -> <<"/">>
      [] e = SQ /\ py -> <<SQ>>
      [] e \in {LF, CR} /\ py -> <<>>
      [] OTHER -> <<"?">>

EscapeKnown(e, py) ==
    \/ e \in {"n", "r", "t", BS, DQ}
    \/ e = "/" /\ ~py
    \/ e \in {SQ, LF, CR} /\ py

\* The body of a string literal opened by quote qc, from position i.  In
\* Python a backslash before a line end (LF, CR or CR LF) continues the line.
RECURSIVE ParseStr(_, _, _, _, _)
ParseStr(s, i, qc, py, acc) ==
    LET c == At(s, i)
        e == At(s, i + 1)
    IN  CASE c = EOF -> Fail
          [] c = qc -> Done(PyStr(acc), i + 1)
          [] c = BS ->
                IF e = EOF THEN Fail
                ELSE IF py /\ e = CR /\ At(s, i + 2) = LF
                     THEN ParseStr(s, i + 3, qc, py, acc)
                ELSE IF EscapeKnown(e, py)
                     THEN ParseStr(s, i + 2, qc, py, acc \o Unescape(e, py))
                ELSE IF py /\ ~IsDigit(e) /\ e \notin {"a", "b", "f", "v", "x", "u", "U", "N"}
                     THEN ParseStr(s, i + 2, qc, py, acc \o <<BS, e>>)
                ELSE Fail
          [] ~py /\ IsControl(c) -> Fail
          [] py /\ c \in {LF, CR} -> Fail
          [] OTHER -> ParseStr(s, i + 1, qc, py, Append(acc, c))

\* A run of digits from position i, with the value read so far.
RECURSIVE ParseDigits(_, _, _)
ParseDigits(s, i, n) ==
    IF IsDigit(At(s, i)) THEN ParseDigits(s, i + 1, 10 * n + DigitVal(At(s, i)))
    ELSE Done(PyNum(n), i)

RECURSIVE AllZero(_, _)
AllZero(s, i) == IF IsDigit(At(s, i)) THEN At(s, i) = "0" /\ AllZero(s, i + 1) ELSE TRUE

\* json: 0 | [1-9][0-9]* (a leading 0 ends the number).  Python: a literal
\* that starts with 0 must be all zeros.
ParseNumber(s, i, py) ==
    IF At(s, i) = "0"
    THEN IF py THEN (IF AllZero(s, i) THEN ParseDigits(s, i, 0) ELSE Fail)
         ELSE Done(PyNum(0), i + 1)
    ELSE ParseDigits(s, i, 0)

Chars(str) ==
    CASE str = "null" -> <<"n", "u", "l", "l">>
      [] str = "true" -> <<"t", "r", "u", "e">>
      [] str = "false" -> <<"f", "a", "l", "s", "e">>
      [] str = "None" -> <<"N", "o", "n", "e">>
      [] str = "True" -> <<"T", "r", "u", "e">>
      [] str = "False" -> <<"F", "a", "l", "s", "e">>

IsNameChar(c) == c # EOF /\ ~IsWs(c) /\ c \notin {"{", "}", "[", "]", ",", ":", DQ, SQ, BS}

\* Python reads a whole name before it decides what it is; json matches the
\* literal's characters and leaves the rest to the caller.
ParseLiteral(s, i, py) ==
    LET nul == IF py THEN "None" ELSE "null"
        tru == IF py THEN "True" ELSE "true"
        fal == IF py THEN "False" ELSE "false"
        whole(w) == StartsAt(s, i, Chars(w)) /\ (py => ~IsNameChar(At(s, i + Len(Chars(w)))))
    IN  CASE whole(nul) -> Done(PyNone, i + Len(Chars(nul)))
          [] whole(tru) -> Done(PyBool(TRUE), i + Len(Chars(tru)))
          [] whole(fal) -> Done(PyBool(FALSE), i + Len(Chars(fal)))
          [] OTHER -> Fail

RECURSIVE ParseValue(_, _, _)
RECURSIVE ParseMembers(_, _, _, _)
RECURSIVE ParseElements(_, _, _, _)

\* The value that starts at position i (whitespace already skipped).
ParseValue(s, i, py) ==
    LET c == At(s, i)
    IN  CASE c = DQ -> ParseStr(s, i + 1, DQ, py, <<>>)
          [] c = SQ /\ py -> ParseStr(s, i + 1, SQ, py, <<>>)
          [] c = "{" ->
                LET j == SkipWs(s, i + 1)
                IN  IF At(s, j) = "}" THEN Done(PyDict(<<>>), j + 1)
                    ELSE ParseMembers(s, j, py, <<>>)
          [] c = "[" ->
                LET j == SkipWs(s, i + 1)
                IN  IF At(s, j) = "]" THEN Done(PyList(<<>>), j + 1)
                    ELSE ParseElements(s, j, py, <<>>)
          [] IsDigit(c) -> ParseNumber(s, i, py)
          [] OTHER -> ParseLiteral(s, i, py)

\* key : value pairs from position i up to the closing brace.  A json key
\* is a string; a Python key is any hashable literal.  Python allows a
\* trailing comma.
ParseMembers(s, i, py, acc) ==
    LET key == IF py \/ At(s, i) = DQ THEN ParseValue(s, i, py) ELSE Fail
        c1 == SkipWs(s, key.i)
        val == ParseValue(s, SkipWs(s, c1 + 1), py)
        c2 == SkipWs(s, val.i)
        acc2 == Append(acc, [k |-> key.v, v |-> val.v])
        c3 == SkipWs(s, c2 + 1)
    IN  IF ~key.ok \/ ~Hashable(key.v) \/ At(s, c1) # ":" THEN Fail
        ELSE IF ~val.ok THEN Fail
        ELSE IF At(s, c2) = "}" THEN Done(PyDict(acc2), c2 + 1)
        ELSE IF At(s, c2) # "," THEN Fail
        ELSE IF py /\ At(s, c3) = "}" THEN Done(PyDict(acc2), c3 + 1)
        ELSE ParseMembers(s, c3, py, acc2)

ParseElements(s, i, py, acc) ==
    LET val == ParseValue(s, i, py)
        c2 == SkipWs(s, val.i)
        acc2 == Append(acc, val.v)
        c3 == SkipWs(s, c2 + 1)
    IN  IF ~val.ok THEN Fail
        ELSE IF At(s, c2) = "]" THEN Done(PyList(acc2), c2 + 1)
        ELSE IF At(s, c2) # "," THEN Fail
        ELSE IF py /\ At(s, c3) = "]" THEN Done(PyList(acc2), c3 + 1)
        ELSE ParseElements(s, c3, py, acc2)

\* json.loads(s): [ok, v]; ok = FALSE stands for the JSONDecodeError.
JsonLoads(s) ==
    LET r == ParseValue(s, SkipWs(s, 1), FALSE)
    IN  IF r.ok /\ SkipWs(s, r.i) = Len(s) + 1 THEN [ok |-> TRUE, v |-> r.v]
        ELSE [ok |-> FALSE, v |-> PyNone]

RECURSIVE SkipBlanks(_, _)
SkipBlanks(s, i) == IF At(s, i) \in {" ", TAB} THEN SkipBlanks(s, i + 1) ELSE i

\* ast.literal_eval(s): leading blanks are stripped, then one expression is
\* compiled.  Blank lines may precede and follow the expression, but the
\* expression may not be indented after a blank line, and a last line of
\* blanks must end in a newline.
LiteralEval(s) ==
    LET i0 == SkipBlanks(s, 1)
        j == SkipWs(s, i0)
        r == ParseValue(s, j, TRUE)
        leadOk == j = i0 \/ At(s, j - 1) \in {LF, CR}
        trailOk == SkipBlanks(s, r.i) = Len(s) + 1 \/ At(s, Len(s)) \in {LF, CR}
    IN  IF leadOk /\ r.ok /\ SkipWs(s, r.i) = Len(s) + 1 /\ trailOk
        THEN [ok |-> TRUE, v |-> r.v]
        ELSE [ok |-> FALSE, v |-> PyNone]

(***************************************************************************)
(* Text operations of fix_json_format                                      *)
(***************************************************************************)
\* The least position >= i that holds c, 0 when there is none.
RECURSIVE Find(_, _, _)
Find(s, i, c) ==
    IF i > Len(s) THEN 0 ELSE IF s[i] = c THEN i ELSE Find(s, i + 1, c)

\* str.replace(old, new) for a non-empty old: every non-overlapping
\* occurrence, left to right.
RECURSIVE Replace(_, _, _)
Replace(s, old, new) ==
    IF s = <<>> THEN <<>>
    ELSE IF StartsAt(s, 1, old)
         THEN new \o Replace(Slice(s, Len(old) + 1, Len(s)), old, new)
    ELSE <<s[1]>> \o Replace(Slice(s, 2, Len(s)), old, new)

\* .replace('\n', '\\n').replace('\r', '\\r')
EscapeNewlines(s) == Replace(Replace(s, <<LF>>, <<BS, "n">>), <<CR>>, <<BS, "r">>)

\* .replace('\\n', '\n').replace('\\r', '\r')
UnescapeNewlines(s) == Replace(Replace(s, <<BS, "n">>, <<LF>>), <<BS, "r">>, <<CR>>)

SqlKey == <<DQ, "s", "q", "l", DQ, ":">>

\* The pattern "sql":\s*"([^"]*(?:\\.[^"]*)*)" tried at position p.  [^"]*
\* is greedy and cannot cross a quote, so it stops at the first quote after
\* the opening one, where the optional group matches zero times and the
\* closing quote matches: the captured span always ends at that quote.
SqlMatchAt(s, p) ==
    LET open == SkipWs(s, p + Len(SqlKey))
        close == Find(s, open + 1, DQ)
    IN  IF StartsAt(s, p, SqlKey) /\ At(s, open) = DQ /\ close # 0
        THEN [found |-> TRUE, start |-> p, open |-> open, close |-> close]
        ELSE [found |-> FALSE, start |-> 0, open |-> 0, close |-> 0]

\* re.search(sql_pattern, raw_data, re.DOTALL): the leftmost match.
RECURSIVE SqlSearchFrom(_, _)
SqlSearchFrom(s, p) ==
    IF p > Len(s) THEN SqlMatchAt(s, 0)
    ELSE IF SqlMatchAt(s, p).found THEN SqlMatchAt(s, p)
    ELSE SqlSearchFrom(s, p + 1)

SqlSearch(s) == SqlSearchFrom(s, 1)

Group0(s, m) == Slice(s, m.start, m.close)
Group1(s, m) == Slice(s, m.open + 1, m.close - 1)

\* The pattern "([^"]+)":\s*"([^"]*(?:\n[^"]*)*)" tried at position p: a
\* quoted non-empty key, a colon, optional whitespace, a quoted value.
KeyValueMatchAt(s, p) ==
    LET kend == Find(s, p + 1, DQ)
        open == SkipWs(s, kend + 2)
        close == Find(s, open + 1, DQ)
    IN  IF /\ At(s, p) = DQ
           /\ kend > p + 1
           /\ At(s, kend + 1) = ":"
           /\ At(s, open) = DQ
           /\ close # 0
        THEN [found |-> TRUE, kend |-> kend, open |-> open, close |-> close]
        ELSE [found |-> FALSE, kend |-> 0, open |-> 0, close |-> 0]

\* fix_string_value: the replacement text of one match.
FixStringValue(key, value) ==
    <<DQ>> \o key \o <<DQ, ":", " ", DQ>> \o EscapeNewlines(value) \o <<DQ>>

\* re.sub(pattern, fix_string_value, raw_data, flags=re.DOTALL)
RECURSIVE SubKeyValues(_, _)
SubKeyValues(s, p) ==
    IF p > Len(s) THEN <<>>
    ELSE LET m == KeyValueMatchAt(s, p)
         IN  IF m.found
             THEN FixStringValue(Slice(s, p + 1, m.kend - 1), Slice(s, m.open + 1, m.close - 1))
                      \o SubKeyValues(s, m.close + 1)
             ELSE <<s[p]>> \o SubKeyValues(s, p + 1)

(***************************************************************************)
(* The five strategies of fix_json_format.  Each yields [ok, v]: ok = TRUE *)
(* when the strategy returns v, FALSE when it raises or falls through.     *)
(***************************************************************************)
NoValue == [ok |-> FALSE, v |-> PyNone]

\* Strategy 1: json.loads(raw_data)
Strategy1(raw_data) == JsonLoads(raw_data)

\* Strategy 2: escape the newlines of the sql field, splice, parse.
Strategy2(raw_data) ==
    LET sql_match == SqlSearch(raw_data)
        sql_content == EscapeNewlines(Group1(raw_data, sql_match))
        fixed_data == Replace(raw_data, Group0(raw_data, sql_match),
                              SqlKey \o <<" ", DQ>> \o sql_content \o <<DQ>>)
    IN  IF sql_match.found THEN JsonLoads(fixed_data) ELSE NoValue

\* Strategy 3: escape the newlines of every "key": "value", parse.
Strategy3(raw_data) == JsonLoads(SubKeyValues(raw_data, 1))

\* Strategy 4: extract the sql field alone.
Strategy4(raw_data) ==
    LET sql_match == SqlSearch(raw_data)
        sql_content == UnescapeNewlines(Group1(raw_data, sql_match))
    IN  IF sql_match.found
        THEN [ok |-> TRUE, v |-> PyDict(<<[k |-> PyStr(<<"s", "q", "l">>), v |-> PyStr(sql_content)]>>)]
        ELSE NoValue

\* Strategy 5: ast.literal_eval(raw_data)
Strategy5(raw_data) == LiteralEval(raw_data)

Strategy(k, raw_data) ==
    CASE k = 1 -> Strategy1(raw_data)
      [] k = 2 -> Strategy2(raw_data)
      [] k = 3 -> Strategy3(raw_data)
      [] k = 4 -> Strategy4(raw_data)
      [] k = 5 -> Strategy5(raw_data)

(***************************************************************************)
(* The database as execute_sql_query finds it, and the DataFrame that      *)
(* pd.read_sql_query hands back: the column names in order, and the rows,  *)
(* each row holding one value per column.                                  *)
(***************************************************************************)
MaxCols == 2
MaxRows == 2

ColNames == {"a", "b"}
Values == {PyNum(1), PyNone}

Range(f) == {f[x] : x \in DOMAIN f}

SeqsUpTo(S, n) == UNION {[1..m -> S] : m \in 0..n}

\* A result set without columns has no rows.
DataFrames ==
    {[columns |-> cols, rows |-> rows] :
        cols \in SeqsUpTo(ColNames, MaxCols), rows \in {<<>>}} \cup
    UNION {{[columns |-> cols, rows |-> rows] :
                rows \in SeqsUpTo([1..Len(cols) -> Values], MaxRows)} :
           cols \in SeqsUpTo(ColNames, MaxCols) \ {<<>>}}

\* nofile: the database file does not exist.  noconn: sqlite3.connect
\* raises.  reject: the store rejects the query.  ok: the query runs and
\* yields df.
Databases ==
    {[k |-> "nofile"], [k |-> "noconn"], [k |-> "reject"]} \cup
    {[k |-> "ok", df |-> df] : df \in DataFrames}

(***************************************************************************)
(* Response envelopes                                                      *)
(***************************************************************************)
Unset == [t |-> "unset"]
Msg(m) == [t |-> "msg", m |-> m]
Now == "timestamp"

NoResponse == [status |-> 0, body |-> Unset]

\* df.to_dict('records'): one dict per row, built as dict(zip(columns,
\* row)), so of two columns with the same name the later one's value stays.
ToDictRecords(df) ==
    [r \in 1..Len(df.rows) |->
        [c \in Range(df.columns) |->
            df.rows[r][CHOOSE i \in 1..Len(df.columns) :
                          /\ df.columns[i] = c
                          /\ \A j \in 1..Len(df.columns) : df.columns[j] = c => j <= i]]]

\* df.empty: some axis has length 0.
DfEmpty(df) == Len(df.rows) = 0 \/ Len(df.columns) = 0

\* SuccessResult without the synthetic row for an empty result.
SuccessResultNoEmptyRow(df) ==
    [success |-> TRUE, error |-> PyNone, data |-> PyList(ToDictRecords(df)),
     row_count |-> Len(df.rows), columns |-> df.columns]

\* Lines 56-74: the success envelope of execute_sql_query.
SuccessResult(df) ==
    LET empty_row == [c \in Range(df.columns) |-> PyNone]
        data == IF DfEmpty(df) /\ Len(df.columns) > 0 THEN <<empty_row>>
                ELSE ToDictRecords(df)
    IN  [success |-> TRUE, error |-> PyNone, data |-> PyList(data),
         row_count |-> Len(data), columns |-> df.columns]

\* FailureResult with an empty list where data should be None.
FailureResultEmptyData(e) == [success |-> FALSE, error |-> Msg(e), data |-> PyList(<<>>)]

\* Lines 79-83: the failure envelope of execute_sql_query.
FailureResult(e) == [success |-> FALSE, error |-> Msg(e), data |-> PyNone]

(***************************************************************************)
(* Request bodies                                                          *)
(***************************************************************************)
MaxQLen == 3

\* The characters of a query text: two letters, the newline characters, a
\* tab and a backslash.
QChars == {"q", "n", LF, CR, TAB, BS}

QStrings == SeqsUpTo(QChars, MaxQLen)

\* The body {"sql": "q"} with q put in as it is.
Wrap(q) == <<"{">> \o SqlKey \o <<" ", DQ>> \o q \o <<DQ, "}">>

OtherBodies == {
    \* empty body: 
    <<>>,
    \* not JSON, no sql field: {q
    <<"{", "q">>,
    \* a bare word: sql
    <<"s", "q", "l">>,
    \* a JSON array: [1]
    <<"[", "1", "]">>,
    \* an empty JSON array: []
    <<"[", "]">>,
    \* a JSON number: 5
    <<"5">>,
    \* the number zero: 0
    <<"0">>,
    \* a JSON string: "q"
    <<DQ, "q", DQ>>,
    \* JSON null: null
    <<"n", "u", "l", "l">>,
    \* JSON true: true
    <<"t", "r", "u", "e">>,
    \* an empty object: {}
    <<"{", "}">>,
    \* an object without sql: {"q": "n"}
    <<"{", DQ, "q", DQ, ":", " ", DQ, "n", DQ, "}">>,
    \* sql is a number: {"sql": 5}
    <<"{", DQ, "s", "q", "l", DQ, ":", " ", "5", "}">>,
    \* sql is an array: {"sql": [1]}
    <<"{", DQ, "s", "q", "l", DQ, ":", " ", "[", "1", "]", "}">>,
    \* sql is null: {"sql": null}
    <<"{", DQ, "s", "q", "l", DQ, ":", " ", "n", "u", "l", "l", "}">>,
    \* no space after the colon: {"sql":"q"}
    <<"{", DQ, "s", "q", "l", DQ, ":", DQ, "q", DQ, "}">>,
    \* whitespace around:  {"sql" : "q"} \n
    <<" ", "{", DQ, "s", "q", "l", DQ, " ", ":", " ", DQ, "q", DQ, "}", " ", LF>>,
    \* sql twice: {"sql": "q", "sql": "n"}
    <<"{", DQ, "s", "q", "l", DQ, ":", " ", DQ, "q", DQ, ",", " ", DQ, "s", "q", "l", DQ, ":", " ", DQ, "n", DQ, "}">>,
    \* a newline in another field: {"q": "\n", "sql": "q"}
    <<"{", DQ, "q", DQ, ":", " ", DQ, LF, DQ, ",", " ", DQ, "s", "q", "l", DQ, ":", " ", DQ, "q", DQ, "}">>,
    \* newlines in both fields: {"q": "\n", "sql": "q\n"}
    <<"{", DQ, "q", DQ, ":", " ", DQ, LF, DQ, ",", " ", DQ, "s", "q", "l", DQ, ":", " ", DQ, "q", LF, DQ, "}">>,
    \* newlines in both fields, sql first: {"sql": "q\n", "q": "\r"}
    <<"{", DQ, "s", "q", "l", DQ, ":", " ", DQ, "q", LF, DQ, ",", " ", DQ, "q", DQ, ":", " ", DQ, CR, DQ, "}">>,
    \* the closing brace is missing: {"sql": "q"
    <<"{", DQ, "s", "q", "l", DQ, ":", " ", DQ, "q", DQ>>,
    \* no braces: "sql": "q\n"
    <<DQ, "s", "q", "l", DQ, ":", " ", DQ, "q", LF, DQ>>,
    \* text after the object: {"sql": "q"} q
    <<"{", DQ, "s", "q", "l", DQ, ":", " ", DQ, "q", DQ, "}", " ", "q">>,
    \* an escaped quote in sql: {"sql": "q\\"n"}
    <<"{", DQ, "s", "q", "l", DQ, ":", " ", DQ, "q", BS, DQ, "n", DQ, "}">>,
    \* an escaped quote and a newline in sql: {"sql": "q\\"\n"}
    <<"{", DQ, "s", "q", "l", DQ, ":", " ", DQ, "q", BS, DQ, LF, DQ, "}">>,
    \* single quotes: {'sql': 'q'}
    <<"{", SQ, "s", "q", "l", SQ, ":", " ", SQ, "q", SQ, "}">>,
    \* single quotes, escaped newline: {'sql': 'q\\n'}
    <<"{", SQ, "s", "q", "l", SQ, ":", " ", SQ, "q", BS, "n", SQ, "}">>,
    \* single quotes, empty sql: {'sql': ''}
    <<"{", SQ, "s", "q", "l", SQ, ":", " ", SQ, SQ, "}">>,
    \* single quotes, no sql: {'q': 'n'}
    <<"{", SQ, "q", SQ, ":", " ", SQ, "n", SQ, "}">>,
    \* single quotes, trailing comma: {'sql': 'q',}
    <<"{", SQ, "s", "q", "l", SQ, ":", " ", SQ, "q", SQ, ",", "}">>,
    \* single-quoted key, newline in double-quoted value: {'sql': "q\nn"}
    <<"{", SQ, "s", "q", "l", SQ, ":", " ", DQ, "q", LF, "n", DQ, "}">>,
    \* trailing comma: {"sql": "q",}
    <<"{", DQ, "s", "q", "l", DQ, ":", " ", DQ, "q", DQ, ",", "}">>,
    \* a Python list: ['q']
    <<"[", SQ, "q", SQ, "]">>,
    \* Python None: None
    <<"N", "o", "n", "e">>,
    \* Python True: True
    <<"T", "r", "u", "e">>,
    \* a Python string: 'q'
    <<SQ, "q", SQ>>,
    \* Python None as sql: {"sql": None}
    <<"{", DQ, "s", "q", "l", DQ, ":", " ", "N", "o", "n", "e", "}">>
}

CoreBodies == {
    \* valid JSON: {"sql": "q"}
    <<"{", DQ, "s", "q", "l", DQ, ":", " ", DQ, "q", DQ, "}">>,
    \* a newline in sql: {"sql": "q\nn"}
    <<"{", DQ, "s", "q", "l", DQ, ":", " ", DQ, "q", LF, "n", DQ, "}">>,
    \* a newline in another field: {"q": "\n", "sql": "q"}
    <<"{", DQ, "q", DQ, ":", " ", DQ, LF, DQ, ",", " ", DQ, "s", "q", "l", DQ, ":", " ", DQ, "q", DQ, "}">>,
    \* the closing brace is missing: {"sql": "q"
    <<"{", DQ, "s", "q", "l", DQ, ":", " ", DQ, "q", DQ>>,
    \* single quotes: {'sql': 'q'}
    <<"{", SQ, "s", "q", "l", SQ, ":", " ", SQ, "q", SQ, "}">>,
    \* not decodable: {q
    <<"{", "q">>,
    \* a JSON array: [1]
    <<"[", "1", "]">>,
    \* an empty object: {}
    <<"{", "}">>,
    \* no sql: {"q": "n"}
    <<"{", DQ, "q", DQ, ":", " ", DQ, "n", DQ, "}">>,
    \* sql is a number: {"sql": 5}
    <<"{", DQ, "s", "q", "l", DQ, ":", " ", "5", "}">>,
    \* sql is an array: {"sql": [1]}
    <<"{", DQ, "s", "q", "l", DQ, ":", " ", "[", "1", "]", "}">>
}

Bodies == {Wrap(q) : q \in QStrings} \cup OtherBodies

(***************************************************************************)
(* State                                                                   *)
(***************************************************************************)
VARIABLES
    raw,        \* raw_data: the request body
    database,   \* the database this request meets
    pc,         \* the handler's position
    tried,      \* the strategies fix_json_format has attempted, in order
    winner,     \* the strategy that returned, 0 while none has
    data,       \* the value fix_json_format returned
    sql_query,  \* data.get('sql')
    execCalls,  \* calls of execute_sql_query
    conn,       \* execute_sql_query's conn: "None", "open" or "closed"
    opened,     \* connections opened so far
    df,         \* the DataFrame read
    exc,        \* the exception raised inside execute_sql_query, "none" if none
    result,     \* what execute_sql_query returns
    response    \* the status and JSON body sent back

vars == <<raw, database, pc, tried, winner, data, sql_query, execCalls, conn,
          opened, df, exc, result, response>>

decodeVars == <<tried, winner, data>>
execVars == <<execCalls, conn, opened, df, exc, result>>

InitRequest ==
    /\ pc = "s1"
    /\ tried = <<>>
    /\ winner = 0
    /\ data = Unset
    /\ sql_query = Unset
    /\ execCalls = 0
    /\ conn = "None"
    /\ opened = 0
    /\ df = Unset
    /\ exc = "none"
    /\ result = Unset
    /\ response = NoResponse

StrategyPc == <<"s1", "s2", "s3", "s4", "s5">>

(***************************************************************************)
(* fix_json_format                                                         *)
(***************************************************************************)
\* Attempt with the return of a successful strategy missing: the value is
\* kept and the next try block runs all the same.
AttemptNoReturn(k) ==
    /\ pc = StrategyPc[k]
    /\ tried' = Append(tried, k)
    /\ LET r == Strategy(k, raw)
       IN  /\ IF r.ok THEN data' = r.v /\ winner' = k ELSE UNCHANGED <<data, winner>>
           /\ pc' = IF k < 5 THEN StrategyPc[k + 1]
                    ELSE IF winner' # 0 THEN "decoded" ELSE "raise"
    /\ UNCHANGED <<raw, database, sql_query, response>>
    /\ UNCHANGED execVars

\* Attempt with the final raise replaced by the return of an empty dict.
AttemptNoRaise(k) ==
    /\ pc = StrategyPc[k]
    /\ tried' = Append(tried, k)
    /\ LET r == Strategy(k, raw)
       IN  IF r.ok
           THEN /\ data' = r.v
                /\ winner' = k
                /\ pc' = "decoded"
           ELSE IF k < 5
                THEN /\ UNCHANGED <<data, winner>>
                     /\ pc' = StrategyPc[k + 1]
                ELSE /\ data' = PyDict(<<>>)
                     /\ UNCHANGED winner
                     /\ pc' = "decoded"
    /\ UNCHANGED <<raw, database, sql_query, response>>
    /\ UNCHANGED execVars

\* One try block of fix_json_format: strategy k either returns its value,
\* which ends fix_json_format, or control passes to the next block; after
\* the fifth, to the raise of line 151.
Attempt(k) ==
    /\ pc = StrategyPc[k]
    /\ tried' = Append(tried, k)
    /\ LET r == Strategy(k, raw)
       IN  IF r.ok
           THEN /\ data' = r.v
                /\ winner' = k
                /\ pc' = "decoded"
           ELSE /\ UNCHANGED <<data, winner>>
                /\ pc' = IF k < 5 THEN StrategyPc[k + 1] ELSE "raise"
    /\ UNCHANGED <<raw, database, sql_query, response>>
    /\ UNCHANGED execVars

TryDirectParse == Attempt(1)
TrySqlNewlines == Attempt(2)
TryAllNewlines == Attempt(3)
TrySqlExtraction == Attempt(4)
TryLiteralEval == Attempt(5)

(***************************************************************************)
(* query_sql                                                               *)
(***************************************************************************)
Reply(status, body) ==
    /\ response' = [status |-> status, body |-> body]
    /\ pc' = "done"

\* Lines 210-216: fix_json_format raised.
DecodeError ==
    /\ pc = "raise"
    /\ Reply(400, [success |-> FALSE, error |-> Msg("JSON format error"), data |-> PyNone])
    /\ UNCHANGED <<raw, database, sql_query>>
    /\ UNCHANGED decodeVars
    /\ UNCHANGED execVars

\* Lines 218-224: if not data.
CheckData ==
    /\ pc = "decoded"
    /\ IF ~Truthy(data)
       THEN Reply(400, [success |-> FALSE, error |-> Msg("request body is empty"), data |-> PyNone])
       ELSE pc' = "get_sql" /\ UNCHANGED response
    /\ UNCHANGED <<raw, database, sql_query>>
    /\ UNCHANGED decodeVars
    /\ UNCHANGED execVars

\* GetSql without the `if not sql_query` answer: execute_sql_query is called
\* whatever sql is.
GetSqlUnchecked ==
    /\ pc = "get_sql"
    /\ IF data.t # "dict"
       THEN /\ pc' = "internal_error"
            /\ UNCHANGED <<sql_query, execCalls>>
       ELSE /\ sql_query' = DictGet(data, PyStr(<<"s", "q", "l">>))
            /\ pc' = "exec_begin"
            /\ execCalls' = execCalls + 1
    /\ UNCHANGED <<raw, database, conn, opened, df, exc, result, response>>
    /\ UNCHANGED decodeVars

\* Lines 227-239: data.get('sql') raises AttributeError unless data is a
\* dict; a falsy sql is answered at once; otherwise execute_sql_query is
\* called.
GetSql ==
    /\ pc = "get_sql"
    /\ IF data.t # "dict"
       THEN /\ pc' = "internal_error"
            /\ UNCHANGED <<sql_query, response, execCalls>>
       ELSE /\ sql_query' = DictGet(data, PyStr(<<"s", "q", "l">>))
            /\ IF ~Truthy(sql_query')
               THEN /\ Reply(400, [success |-> FALSE, error |-> Msg("missing sql parameter"), data |-> PyNone])
                    /\ UNCHANGED execCalls
               ELSE /\ pc' = "exec_begin"
                    /\ execCalls' = execCalls + 1
                    /\ UNCHANGED response
    /\ UNCHANGED <<raw, database, conn, opened, df, exc, result>>
    /\ UNCHANGED decodeVars

\* Lines 241-258: the response built from execute_sql_query's result.
Respond ==
    /\ pc = "respond"
    /\ IF result.success
       THEN Reply(200, [success |-> TRUE, error |-> PyNone, data |-> result.data,
                        row_count |-> result.row_count, columns |-> result.columns,
                        sql |-> sql_query, timestamp |-> Now])
       ELSE Reply(400, [success |-> FALSE, error |-> result.error, data |-> PyNone,
                        sql |-> sql_query, timestamp |-> Now])
    /\ UNCHANGED <<raw, database, sql_query>>
    /\ UNCHANGED decodeVars
    /\ UNCHANGED execVars

\* Lines 260-268: the outermost except.
InternalError ==
    /\ pc = "internal_error"
    /\ Reply(500, [success |-> FALSE, error |-> Msg("server error"), data |-> PyNone,
                   timestamp |-> Now])
    /\ UNCHANGED <<raw, database, sql_query>>
    /\ UNCHANGED decodeVars
    /\ UNCHANGED execVars

(***************************************************************************)
(* execute_sql_query                                                       *)
(***************************************************************************)
ExecStep(next) ==
    /\ pc' = next
    /\ UNCHANGED <<raw, database, sql_query, response, execCalls>>
    /\ UNCHANGED decodeVars

\* An exception raised inside the try block of lines 43-74.
Raise(e) ==
    /\ exc' = e
    /\ ExecStep("exec_except")

\* Lines 42-44: conn = None, then sql_query[:100] for the log line, which
\* raises TypeError unless sql_query can be sliced.
ExecBegin ==
    /\ pc = "exec_begin"
    /\ conn' = "None"
    /\ IF sql_query.t \in {"str", "list"}
       THEN ExecStep("exec_exists") /\ UNCHANGED exc
       ELSE Raise("TypeError")
    /\ UNCHANGED <<opened, df, result>>

\* Lines 47-48: os.path.exists(DATABASE).
CheckDatabaseFile ==
    /\ pc = "exec_exists"
    /\ IF database.k = "nofile"
       THEN Raise("database file does not exist")
       ELSE ExecStep("exec_connect") /\ UNCHANGED exc
    /\ UNCHANGED <<conn, opened, df, result>>

\* Lines 51 and 26-36: get_db_connection returns a connection or raises.
GetDbConnection ==
    /\ pc = "exec_connect"
    /\ IF database.k = "noconn"
       THEN /\ Raise("database connection failed")
            /\ UNCHANGED <<conn, opened>>
       ELSE /\ ExecStep("exec_read")
            /\ conn' = "open"
            /\ opened' = opened + 1
            /\ UNCHANGED exc
    /\ UNCHANGED <<df, result>>

\* Line 54: pd.read_sql_query(sql_query, conn).  Only a str is a query.
ReadSqlQuery ==
    /\ pc = "exec_read"
    /\ IF database.k = "ok" /\ sql_query.t = "str"
       THEN ExecStep("exec_records") /\ df' = database.df /\ UNCHANGED exc
       ELSE Raise("query failed") /\ UNCHANGED df
    /\ UNCHANGED <<conn, opened, result>>

\* Lines 56-74: the return value on success.
ReturnRecords ==
    /\ pc = "exec_records"
    /\ result' = SuccessResult(df)
    /\ ExecStep("exec_finally")
    /\ UNCHANGED <<conn, opened, df, exc>>

\* ExecExcept that lets the exception out of execute_sql_query, into the
\* outermost except of query_sql.
ExecExceptReraise ==
    /\ pc = "exec_except"
    /\ ExecStep("internal_error")
    /\ UNCHANGED <<conn, opened, df, exc, result>>

\* Lines 76-83: except Exception as e.
ExecExcept ==
    /\ pc = "exec_except"
    /\ result' = FailureResult(exc)
    /\ ExecStep("exec_finally")
    /\ UNCHANGED <<conn, opened, df, exc>>

\* ExecFinally without the close.
ExecFinallyNoClose ==
    /\ pc = "exec_finally"
    /\ ExecStep("respond")
    /\ UNCHANGED <<conn, opened, df, exc, result>>

\* Lines 84-86: finally: if conn: conn.close(); then the return completes.
ExecFinally ==
    /\ pc = "exec_finally"
    /\ conn' = IF conn = "open" THEN "closed" ELSE conn
    /\ ExecStep("respond")
    /\ UNCHANGED <<opened, df, result, exc>>

(***************************************************************************)
(* Specifications                                                          *)
(***************************************************************************)
Next ==
    \/ TryDirectParse
    \/ TrySqlNewlines
    \/ TryAllNewlines
    \/ TrySqlExtraction
    \/ TryLiteralEval
    \/ DecodeError
    \/ CheckData
    \/ GetSql
    \/ ExecBegin
    \/ CheckDatabaseFile
    \/ GetDbConnection
    \/ ReadSqlQuery
    \/ ReturnRecords
    \/ ExecExcept
    \/ ExecFinally
    \/ Respond
    \/ InternalError

\* A database of each kind; the one DataFrame has a column and no rows.
CoreDatabases ==
    {[k |-> "nofile"], [k |-> "noconn"], [k |-> "reject"],
     [k |-> "ok", df |-> [columns |-> <<"a">>, rows |-> <<>>]]}

\* Every request body, against a database of each kind.
Init ==
    /\ raw \in Bodies
    /\ database \in CoreDatabases
    /\ InitRequest

Spec == Init /\ [][Next]_vars

\* A body for each way through the decoder, against every database.
InitStore ==
    /\ raw \in CoreBodies
    /\ database \in Databases
    /\ InitRequest

SpecStore == InitStore /\ [][Next]_vars

(***************************************************************************)
(* Properties                                                              *)
(***************************************************************************)
Sql == PyStr(<<"s", "q", "l">>)

\* v is a mapping with a non-empty sql entry.
HasQueryText(v) == v.t = "dict" /\ Truthy(DictGet(v, Sql))

AllStrategiesFail(body) == \A k \in 1..5 : ~Strategy(k, body).ok

\* C1: the strategies are attempted in the order 1, 2, 3, 4, 5; a strategy is
\* attempted only while no strategy has returned a value and after every
\* lower-numbered strategy has failed on the body; and the value handed to
\* query_sql is that of the last strategy attempted, which succeeded.
C1_StrategyOrder ==
    /\ [][tried' # tried =>
            /\ winner = 0
            /\ tried' = Append(tried, Len(tried) + 1)
            /\ \A j \in 1..Len(tried) : ~Strategy(j, raw).ok]_vars
    /\ [](pc = "decoded" =>
            /\ winner = Len(tried)
            /\ winner \in 1..5
            /\ Strategy(winner, raw).ok
            /\ data = Strategy(winner, raw).v)

\* C1 witness: strategy 2 recovered the body and the request ran to its end
\* with strategies 3, 4 and 5 never attempted.
C1_Witness == pc = "done" /\ winner = 2 /\ tried = <<1, 2>>

\* C2: a body that cannot be decoded, or decodes to a value without a
\* non-empty sql entry (a value that is no mapping included), is answered
\* with status 400.
C2_MalformedIs400 ==
    (pc = "done" /\ (winner = 0 \/ ~HasQueryText(data))) => response.status = 400

\* C3: when all five strategies fail on the body, fix_json_format returns no
\* value, and the request is answered with status 400 and the decode-error
\* envelope {success: false, data: null}.
C3_ExhaustionFails ==
    (pc \in {"raise", "done"} /\ AllStrategiesFail(raw)) =>
        /\ data = Unset
        /\ winner = 0
        /\ tried = <<1, 2, 3, 4, 5>>
        /\ pc = "done" =>
              response = [status |-> 400,
                          body |-> [success |-> FALSE,
                                    error |-> Msg("JSON format error"),
                                    data |-> PyNone]]

\* C3 witness: a request answered after all five strategies failed.
C3_Witness ==
    pc = "done" /\ tried = <<1, 2, 3, 4, 5>> /\ winner = 0 /\ response.status = 400

\* C4: execute_sql_query is called only after a strategy returned a mapping
\* with a non-empty sql entry, and with that entry; a request whose body
\* does not decode or has no query text ends without a call of
\* execute_sql_query and without a connection.
C4_NoStorageCallWithoutQuery ==
    /\ execCalls > 0 =>
          /\ winner # 0
          /\ HasQueryText(data)
          /\ sql_query = DictGet(data, Sql)
    /\ (pc = "done" /\ (winner = 0 \/ ~HasQueryText(data))) =>
          /\ execCalls = 0
          /\ opened = 0
          /\ result = Unset

\* C4 witness: a decoded mapping without query text was answered 400 with
\* no call of execute_sql_query.
C4_Witness ==
    /\ pc = "done"
    /\ winner # 0
    /\ data.t = "dict"
    /\ ~HasQueryText(data)
    /\ response.status = 400
    /\ execCalls = 0

EnvelopeOk(e) ==
    /\ e.success =>
          /\ e.error = PyNone
          /\ "data" \in DOMAIN e
          /\ e.data.t = "list"
          /\ "columns" \in DOMAIN e
    /\ ~e.success => e.data = PyNone

\* C5: every envelope returned by execute_sql_query and every response body
\* of POST /query has error null, data and columns present when success is
\* true, and data null when success is false.
C5_EnvelopeInvariant ==
    /\ result # Unset => EnvelopeOk(result)
    /\ response.status # 0 => EnvelopeOk(response.body)

\* C5 witness: a failure envelope came back from execute_sql_query and was
\* sent.
C5_Witness ==
    /\ pc = "done"
    /\ result # Unset
    /\ ~result.success
    /\ ~response.body.success

\* C6: a successful query with no rows and at least one column returns one
\* row mapping every column to null, row_count 1 and the column list; with
\* no rows and no columns it returns no data rows and row_count 0.
C6_EmptyResult ==
    (result # Unset /\ result.success) =>
        /\ (Len(df.rows) = 0 /\ Len(df.columns) > 0) =>
              /\ result.data = PyList(<<[c \in Range(df.columns) |-> PyNone]>>)
              /\ result.row_count = 1
              /\ result.columns = df.columns
        /\ (Len(df.rows) = 0 /\ Len(df.columns) = 0) =>
              /\ result.data = PyList(<<>>)
              /\ result.row_count = 0

\* C6 witness: a query with two columns and no rows was answered.
C6_Witness ==
    /\ pc = "done"
    /\ response.status = 200
    /\ Len(df.rows) = 0
    /\ Len(df.columns) = 2

\* C7: a successful query with rows returns one mapping per row in row
\* order, each keyed by exactly the column names and holding, for every
\* column position, the row's value at that position; row_count is the
\* number of rows and columns is the column list.
C7_RowsAligned ==
    (result # Unset /\ result.success /\ Len(df.rows) > 0) =>
        /\ Len(result.data.items) = Len(df.rows)
        /\ \A r \in 1..Len(df.rows) :
              /\ DOMAIN result.data.items[r] = Range(df.columns)
              /\ \A i \in 1..Len(df.columns) :
                    result.data.items[r][df.columns[i]] = df.rows[r][i]
        /\ result.row_count = Len(df.rows)
        /\ result.columns = df.columns

BodyPrefix == <<"{">> \o SqlKey \o <<" ", DQ>>

\* The q of a body {"sql": "q"} whose q holds no double quote.
IsWrapped(body) ==
    /\ Len(body) >= Len(BodyPrefix) + 2
    /\ StartsAt(body, 1, BodyPrefix)
    /\ StartsAt(body, Len(body) - 1, <<DQ, "}">>)
    /\ DQ \notin Range(Slice(body, Len(BodyPrefix) + 1, Len(body) - 2))

QueryOf(body) == Slice(body, Len(BodyPrefix) + 1, Len(body) - 2)

\* C8: for a body {"sql": "q"} whose q holds a literal newline or carriage
\* return and no double quote, the decoded sql value is q, character for
\* character.
C8_NewlineRoundTrip ==
    (/\ pc = "decoded"
     /\ IsWrapped(raw)
     /\ Range(QueryOf(raw)) \cap {LF, CR} # {}) =>
        /\ data.t = "dict"
        /\ DictGet(data, Sql) = PyStr(QueryOf(raw))

C10_ConnectionClosed ==
    /\ opened <= 1
    /\ conn = "open" => pc \in {"exec_read", "exec_records", "exec_except", "exec_finally"}
    /\ pc \in {"respond", "done", "internal_error"} => conn # "open"
    /\ (pc \in {"respond", "done"} /\ opened = 1) => conn = "closed"

\* C10 witness: an exception was raised after the connection was obtained,
\* and the call returned with the connection closed.
C10_Witness ==
    /\ pc = "done"
    /\ opened = 1
    /\ exc # "none"
    /\ conn = "closed"

=============================================================================
